---- MODULE Spec2Model ----
(***************************************************************************)
(* A model of picturefill (src/src/picturefill.js): the srcset / sizes     *)
(* parsers, the descriptor resolver, candidate selection, source matching, *)
(* the MIME type registry with its asynchronous probe, the evaluation pass *)
(* (picturefill.shim) and the resize throttle.                             *)
(*                                                                         *)
(* Strings are sequences of one-character strings.  Numbers are exact      *)
(* rationals [n, d] in lowest terms with d > 0; NaN and undefined are the  *)
(* distinguished values NaN and Undef.                                     *)
(***************************************************************************)
EXTENDS Integers, Sequences, FiniteSets, TLC

VARIABLES
  call,      \* harness of the pure functions: the arguments and the result
  types,     \* picturefill.types: MIME type -> TRUE | FALSE | Fn | Undef
  probe,     \* picturefill.support.image used by the webp test: Idle | Loading
  imgs,      \* the img elements: src, currentSrc, srcset, expando, width, ...
  env,       \* the host: matching media, devicePixelRatio, protocol
  working,   \* picturefill.support.picturefillWorking_
  timer,     \* picturefill.support.resizeThrottle: NoTimer or time to expiry
  sizers,    \* outstanding setInherentSize timeouts
  doc,       \* the document: the pictures and their children
  hist       \* history of the last operation and of the resize signals

vars == <<call, types, probe, imgs, env, working, timer, sizers, doc, hist>>
mvars == <<types, probe, imgs, env, working, timer, sizers, doc, hist>>

-----------------------------------------------------------------------------
(* Values of JavaScript that are not strings, booleans or finite numbers.  *)

NaN == [n |-> 0, d |-> 0]
Undef == [n |-> 0, d |-> -1]

-----------------------------------------------------------------------------
(* Exact rational arithmetic for JavaScript numbers.                       *)

Abs(i) == IF i < 0 THEN -i ELSE i

RECURSIVE GCD(_, _)
GCD(a, b) == IF b = 0 THEN a ELSE GCD(b, a % b)

Rat(n, d) ==
  LET g == GCD(Abs(n), d)
  IN  IF n = 0 THEN [n |-> 0, d |-> 1] ELSE [n |-> n \div g, d |-> d \div g]

IsNum(v) == v # NaN /\ v # Undef

Num(i) == Rat(i, 1)

RatSub(a, b) == Rat(a.n * b.d - b.n * a.d, a.d * b.d)

\* a / b of JavaScript; [n |-> 1, d |-> 0] and [n |-> -1, d |-> 0] are the
\* infinities (x / 0 for x # 0), and 0 / 0 is NaN
RatDiv(a, b) ==
  IF a = NaN \/ b = NaN THEN NaN
  ELSE IF b.n = 0 THEN (IF a.n = 0 THEN NaN ELSE [n |-> IF a.n > 0 THEN 1 ELSE -1, d |-> 0])
  ELSE IF b.n > 0 THEN Rat(a.n * b.d, a.d * b.n)
  ELSE Rat(-(a.n * b.d), a.d * (-b.n))

RatGeq(a, b) == IsNum(a) /\ IsNum(b) /\ a.n * b.d >= b.n * a.d
RatGt(a, b) == IsNum(a) /\ IsNum(b) /\ a.n * b.d > b.n * a.d
RatLeq(a, b) == RatGeq(b, a)

\* ToBoolean of a number or undefined
Truthy(v) == IsNum(v) /\ v.n # 0

-----------------------------------------------------------------------------
(* Candidate selection.                                                    *)

\* picturefill.getDpr: window.devicePixelRatio || 1
getDpr(raw) == IF Truthy(raw) THEN raw ELSE Num(1)

\* the comparison reversed: a variant the claims on selection must reject
ascendingSortDescending(a, b) == RatSub(b.resolution, a.resolution)

\* picturefill.ascendingSort: a.resolution - b.resolution
ascendingSort(a, b) == RatSub(a.resolution, b.resolution)

\* Array.prototype.sort with a comparator: stable, c goes after every element
\* that does not compare greater than it
RECURSIVE InsertSorted(_, _)
InsertSorted(s, c) ==
  IF s = <<>> THEN <<c>>
  ELSE IF ascendingSort(s[Len(s)], c).n <= 0 THEN Append(s, c)
  ELSE Append(InsertSorted(SubSeq(s, 1, Len(s) - 1), c), s[Len(s)])

\* the list left in parse order: a variant the claims on selection must reject
SortCandidatesOmitted(s) == s

RECURSIVE SortCandidates(_)
SortCandidates(s) ==
  IF s = <<>> THEN <<>>
  ELSE InsertSorted(SortCandidates(SubSeq(s, 1, Len(s) - 1)), s[Len(s)])

NoCandidate == [url |-> <<>>, resolution |-> Undef]

\* the scan of applyBestCandidate: the first candidate, from index i on, whose
\* resolution >= getDpr(); dflt when the scan ends without one
RECURSIVE ScanCandidates(_, _, _, _)
ScanCandidates(sorted, i, dprRaw, dflt) ==
  IF i > Len(sorted) THEN dflt
  ELSE IF RatGeq(sorted[i].resolution, getDpr(dprRaw)) THEN sorted[i]
  ELSE ScanCandidates(sorted, i + 1, dprRaw, dflt)

\* the choice without the default of line 459: a variant the claims must reject
BestCandidateNoDefault(candidates, dprRaw) ==
  LET sorted == SortCandidates(candidates)
  IN  ScanCandidates(sorted, 1, dprRaw, NoCandidate)

\* applyBestCandidate, lines 456-467: sort, default to the last, scan ascending
BestCandidate(candidates, dprRaw) ==
  LET sorted == SortCandidates(candidates)
      dflt == IF sorted = <<>> THEN NoCandidate ELSE sorted[Len(sorted)]
  IN  ScanCandidates(sorted, 1, dprRaw, dflt)

-----------------------------------------------------------------------------
(* Strings.                                                                *)

\* an absent attribute or property (null / undefined where a string is read)
NullStr == <<"<null>">>

Lower(c) ==
  CASE c = "H" -> "h" [] c = "T" -> "t" [] c = "P" -> "p" [] c = "S" -> "s"
    [] OTHER -> c

toLowerCase(str) == [i \in 1..Len(str) |-> Lower(str[i])]

\* str.substr(0, k)
Prefix(str, k) == SubSeq(str, 1, IF Len(str) < k THEN Len(str) ELSE k)

\* str.slice(k) for 0 <= k
Drop(str, k) == SubSeq(str, k + 1, Len(str))

\* picturefill.endsWith
endsWith(str, suffix) ==
  /\ Len(suffix) <= Len(str)
  /\ SubSeq(str, Len(str) - Len(suffix) + 1, Len(str)) = suffix

HttpColon == <<"h", "t", "t", "p", ":">>
HttpsColon == <<"h", "t", "t", "p", "s", ":">>

\* picturefill.restrictsMixedContent: location.protocol === 'https:'
restrictsMixedContent(e) == e.protocol = HttpsColon

\* the value read back from img.src after the assignment img.src = url: the
\* URL resolved against the document's address
ResolveUrl(url, e) ==
  IF toLowerCase(Prefix(url, 5)) = HttpColon \/ toLowerCase(Prefix(url, 6)) = HttpsColon
  THEN url
  ELSE e.protocol \o <<"/", "/", "h", "/">> \o url

-----------------------------------------------------------------------------
(* String functions of the language used by the parsers.                   *)

\* \s of a regular expression
IsSpace(c) == c \in {" ", "\t", "\n"}

RECURSIVE trimLeft(_)
trimLeft(str) ==
  IF str # <<>> /\ IsSpace(str[1]) THEN trimLeft(Drop(str, 1)) ELSE str

RECURSIVE trimRight(_)
trimRight(str) ==
  IF str # <<>> /\ IsSpace(str[Len(str)])
  THEN trimRight(SubSeq(str, 1, Len(str) - 1)) ELSE str

\* picturefill.trim, and replace( /(^\s+|\s+$)/g, '' )
trim(str) == trimRight(trimLeft(str))

\* str.indexOf(c, from - 1) + 1 for a one-character c: 0 when absent
RECURSIVE IndexFrom(_, _, _)
IndexFrom(str, c, from) ==
  IF from > Len(str) THEN 0
  ELSE IF str[from] = c THEN from
  ELSE IndexFrom(str, c, from + 1)

\* whether sub occurs in str
Contains(str, sub) ==
  \E i \in 1..(Len(str) - Len(sub) + 1) : SubSeq(str, i, i + Len(sub) - 1) = sub

\* str.split(c) for a one-character separator
RECURSIVE split(_, _)
split(str, c) ==
  LET k == IndexFrom(str, c, 1)
  IN  IF k = 0 THEN <<str>>
      ELSE <<SubSeq(str, 1, k - 1)>> \o split(Drop(str, k), c)

IsDigit(c) == c \in {"0", "1", "2", "3", "4", "5", "6", "7", "8", "9"}

DigitVal(c) ==
  CASE c = "0" -> 0 [] c = "1" -> 1 [] c = "2" -> 2 [] c = "3" -> 3 [] c = "4" -> 4
    [] c = "5" -> 5 [] c = "6" -> 6 [] c = "7" -> 7 [] c = "8" -> 8 [] c = "9" -> 9

\* the number of digits of str from index i on
RECURSIVE CountDigits(_, _)
CountDigits(str, i) ==
  IF i <= Len(str) /\ IsDigit(str[i]) THEN 1 + CountDigits(str, i + 1) ELSE 0

\* the value of the k digits of str from index i on
RECURSIVE DigitsValue(_, _, _)
DigitsValue(str, i, k) ==
  IF k = 0 THEN 0
  ELSE 10 * DigitsValue(str, i, k - 1) + DigitVal(str[i + k - 1])

RECURSIVE Pow10(_)
Pow10(k) == IF k = 0 THEN 1 ELSE 10 * Pow10(k - 1)

\* parseInt(str, 10): leading white space, a sign, the longest run of digits
parseInt(str) ==
  LET s == trimLeft(str)
      signed == s # <<>> /\ s[1] \in {"-", "+"}
      i0 == IF signed THEN 2 ELSE 1
      k == CountDigits(s, i0)
      v == DigitsValue(s, i0, k)
  IN  IF k = 0 THEN NaN
      ELSE IF signed /\ s[1] = "-" THEN Num(-v) ELSE Num(v)

\* parseFloat(str): leading white space, a sign, digits with an optional
\* fraction (exponents and Infinity need characters the model does not draw)
parseFloat(str) ==
  LET s == trimLeft(str)
      signed == s # <<>> /\ s[1] \in {"-", "+"}
      i0 == IF signed THEN 2 ELSE 1
      k == CountDigits(s, i0)
      dot == i0 + k <= Len(s) /\ s[i0 + k] = "."
      f == IF dot THEN CountDigits(s, i0 + k + 1) ELSE 0
      v == DigitsValue(s, i0, k) * Pow10(f) + DigitsValue(s, i0 + k + 1, f)
  IN  IF k + f = 0 THEN NaN
      ELSE IF signed /\ s[1] = "-" THEN Rat(-v, Pow10(f)) ELSE Rat(v, Pow10(f))

-----------------------------------------------------------------------------
(* The host.                                                               *)

\* What the host answers during one handler: the media queries that match
\* (window.matchMedia), window.devicePixelRatio, location.protocol, whether a
\* resource assigned to an img is available at once, the offsetWidth of the
\* document element, the offsetWidth measured for a length the model does not
\* interpret, and whether Image has the srcset and sizes properties.
BaseHost ==
  [media |-> {}, dpr |-> Num(1), protocol |-> HttpColon, avail |-> TRUE,
   viewport |-> 2, otherPx |-> 0, srcsetSupported |-> FALSE, sizesSupported |-> FALSE]

\* picturefill.matchesMedia
matchesMedia(media, e) == media \in e.media

-----------------------------------------------------------------------------
(* The sizes list.                                                         *)

\* str.replace(sub, by): the first occurrence only
replaceFirst(str, sub, by) ==
  LET at == {i \in 1..(Len(str) - Len(sub) + 1) : SubSeq(str, i, i + Len(sub) - 1) = sub}
  IN  IF at = {} THEN str
      ELSE LET i == CHOOSE j \in at : \A k \in at : j <= k
           IN  SubSeq(str, 1, i - 1) \o by \o Drop(str, i + Len(sub) - 1)

\* the length of the number parseFloat reads at the start of str (no leading
\* white space): 0 when there is none
FloatLen(str) ==
  LET signed == str # <<>> /\ str[1] \in {"-", "+"}
      i0 == IF signed THEN 2 ELSE 1
      k == CountDigits(str, i0)
      dot == i0 + k <= Len(str) /\ str[i0 + k] = "."
      f == IF dot THEN CountDigits(str, i0 + k + 1) ELSE 0
  IN  IF k + f = 0 THEN 0
      ELSE (i0 - 1) + k + (IF dot /\ (f > 0 \/ k > 0) THEN 1 + f ELSE 0)

\* Math.round of a rational >= 0
Round(r) == (2 * r.n + r.d) \div (2 * r.d)

Px == <<"p", "x">>
Percent == <<"%">>
Vw == <<"v", "w">>
CalcOpen == <<"c", "a", "l", "c", "(">>
FullWidth == <<"1", "0", "0", "v", "w">>

\* lengthEl.offsetWidth after lengthEl.style.width = css: pixels and
\* percentages of the containing block are interpreted, any other value is
\* what the host measures (e.otherPx)
CssPx(css, e) ==
  LET v == parseFloat(css)
      unit == Drop(css, FloatLen(css))
  IN  IF IsNum(v) /\ v.n >= 0 /\ FloatLen(css) > 0 /\ unit = Px THEN Round(v)
      ELSE IF IsNum(v) /\ v.n >= 0 /\ FloatLen(css) > 0 /\ unit = Percent
      THEN Round(Rat(v.n * e.viewport, v.d * 100))
      ELSE e.otherPx

\* the end of getWidthFromLength: an offsetWidth of 0 or less gives the width
\* of the viewport
OffsetWidthOrViewport(offsetWidth, e) ==
  IF offsetWidth <= 0 THEN e.viewport ELSE offsetWidth

\* the test on the length at the head of getWidthFromLength
UsableLength(length) ==
  /\ length # NullStr /\ length # <<>>
  /\ ~Contains(length, Percent)
  /\ (RatGt(parseFloat(length), Num(0)) \/ Contains(length, CalcOpen))

\* picturefill.Support.prototype.getWidthFromLength; length is NullStr when
\* undefined
getWidthFromLength(length, e) ==
  OffsetWidthOrViewport(
    CssPx(replaceFirst(IF UsableLength(length) THEN length ELSE FullWidth,
                       Vw, Percent), e), e)

\* what (.+) takes of a non-empty rest after \s* : the rest without its leading
\* white space, or its last character when it is white space only
LengthPart(rest) ==
  IF trimLeft(rest) # <<>> THEN trimLeft(rest) ELSE <<rest[Len(rest)]>>

\* picturefill.parseSize: /(\([^)]+\))?\s*(.+)/ on the entry; media and length
\* are NullStr when null or undefined
parseSize(sourceSizeStr) ==
  LET close == IF sourceSizeStr # <<>> /\ sourceSizeStr[1] = "("
               THEN IndexFrom(sourceSizeStr, ")", 2) ELSE 0
  IN  IF sourceSizeStr = <<>> THEN [media |-> NullStr, length |-> NullStr]
      ELSE IF close >= 3 /\ close < Len(sourceSizeStr)
      THEN [media |-> SubSeq(sourceSizeStr, 1, close),
            length |-> LengthPart(Drop(sourceSizeStr, close))]
      ELSE [media |-> NullStr, length |-> LengthPart(sourceSizeStr)]

\* picturefill.trim( str ).split( /\s*,\s*/ )
splitSizes(str) ==
  LET parts == split(trim(str), ",")
  IN  [i \in 1..Len(parts) |-> trim(parts[i])]

\* the loop of findWidthFromSourceSize from entry i on: the winning length,
\* NullStr when no entry wins
RECURSIVE WinningLength(_, _, _)
WinningLength(list, i, e) ==
  IF i > Len(list) THEN NullStr
  ELSE LET parsed == parseSize(list[i])
       IN  IF parsed.length = NullStr \/ parsed.length = <<>>
           THEN WinningLength(list, i + 1, e)
           ELSE IF parsed.media = NullStr \/ matchesMedia(parsed.media, e)
           THEN parsed.length
           ELSE WinningLength(list, i + 1, e)

\* picturefill.findWidthFromSourceSize
findWidthFromSourceSize(sourceSizeListStr, e) ==
  getWidthFromLength(WinningLength(splitSizes(sourceSizeListStr), 1, e), e)

-----------------------------------------------------------------------------
(* The descriptor resolver.                                                *)

\* x || 1
OrOne(x) == IF Truthy(x) THEN x ELSE Num(1)

\* the loop leaving at the first token, from the last, that matches: a variant
\* the claims must reject
RECURSIVE ScanTokensEarlyExit(_, _, _, _, _)
ScanTokensEarlyExit(tokens, i, width, res, e) ==
  IF i < 1 THEN res
  ELSE LET curr == tokens[i]
           lastchar == IF curr = <<>> THEN "" ELSE curr[Len(curr)]
       IN  IF lastchar \in {"h", "w"} /\ ~e.sizesSupported
           THEN RatDiv(parseInt(curr), Num(width))
           ELSE IF lastchar = "x" THEN OrOne(parseFloat(curr))
           ELSE ScanTokensEarlyExit(tokens, i - 1, width, res, e)

\* the loop of parseDescriptor over the tokens i, i - 1, ..., 1: resCandidate
RECURSIVE ScanTokens(_, _, _, _, _)
ScanTokens(tokens, i, width, res, e) ==
  IF i < 1 THEN res
  ELSE LET curr == tokens[i]
           lastchar == IF curr = <<>> THEN "" ELSE curr[Len(curr)]
           res1 == IF lastchar \in {"h", "w"} /\ ~e.sizesSupported
                   THEN RatDiv(parseInt(curr), Num(width))
                   ELSE IF lastchar = "x"
                   THEN OrOne(parseFloat(curr))
                   ELSE res
       IN  ScanTokens(tokens, i - 1, width, res1, e)

\* picturefill.parseDescriptor; descriptor and sizesattr are NullStr when
\* null or undefined
parseDescriptor(descriptor, sizesattr, e) ==
  LET sizes == IF sizesattr = NullStr \/ sizesattr = <<>> THEN FullWidth ELSE sizesattr
      sizeDescriptor == IF descriptor = NullStr THEN NullStr ELSE trim(descriptor)
      widthInCssPixels == findWidthFromSourceSize(sizes, e)
      splitDescriptor == split(sizeDescriptor, " ")
  IN  OrOne(IF sizeDescriptor = NullStr \/ sizeDescriptor = <<>> THEN Undef
            ELSE ScanTokens(splitDescriptor, Len(splitDescriptor), widthInCssPixels,
                            Undef, e))

-----------------------------------------------------------------------------
(* The srcset parser.                                                      *)

\* str.search( /\s/ ) + 1: the index of the first white space, 0 when none
RECURSIVE SearchSpace(_, _)
SearchSpace(str, i) ==
  IF i > Len(str) THEN 0
  ELSE IF IsSpace(str[i]) THEN i
  ELSE SearchSpace(str, i + 1)

\* url.replace( /,+$/, '' )
RECURSIVE stripCommas(_)
stripCommas(url) ==
  IF url # <<>> /\ url[Len(url)] = "," THEN stripCommas(SubSeq(url, 1, Len(url) - 1))
  ELSE url

\* picturefill.parseSrcset: the loop, candidates being those pushed so far; a
\* descriptor that is null is NullStr
RECURSIVE ParseLoop(_, _)
ParseLoop(input, candidates) ==
  IF input = <<>> THEN candidates
  ELSE
    LET srcset == trimLeft(input)
        pos == SearchSpace(srcset, 1)
        url0 == IF pos # 0 THEN SubSeq(srcset, 1, pos - 1) ELSE srcset
        comma == pos # 0 /\ (url0 = <<>> \/ url0[Len(url0)] = ",")
        url == IF comma THEN stripCommas(url0) ELSE url0
        rest == IF pos # 0 THEN Drop(srcset, pos) ELSE <<>>
        descpos == IndexFrom(rest, ",", 1)
        descriptor == IF pos = 0 THEN NullStr
                      ELSE IF comma THEN <<>>
                      ELSE IF descpos # 0 THEN SubSeq(rest, 1, descpos - 1)
                      ELSE rest
        left == IF pos = 0 \/ comma THEN rest
                ELSE IF descpos # 0 THEN Drop(rest, descpos)
                ELSE <<>>
        keep == url # <<>> \/ (descriptor # NullStr /\ descriptor # <<>>)
    IN  ParseLoop(left, IF keep
                        THEN Append(candidates, [url |-> url, descriptor |-> descriptor])
                        ELSE candidates)

parseSrcset(srcset) == ParseLoop(srcset, <<>>)

\* picturefill.getCandidatesFromSourceSet
getCandidatesFromSourceSet(srcset, sizes, e) ==
  LET candidates == parseSrcset(srcset)
  IN  [i \in 1..Len(candidates) |->
         [url |-> candidates[i].url,
          resolution |-> parseDescriptor(candidates[i].descriptor, sizes, e)]]

-----------------------------------------------------------------------------
(* The document and the MIME type registry.                                *)

\* A child node of a picture element: nodeName (kind), for an img its id, for
\* a source its srcset, sizes and media attributes (NullStr when absent), its
\* type attribute ("" when absent or empty) and whether it has a src
\* attribute, for a video the source elements inside it.
Node(kind, id, srcset, sizes, media, type, src, inner) ==
  [kind |-> kind, id |-> id, srcset |-> srcset, sizes |-> sizes, media |-> media,
   type |-> type, src |-> src, inner |-> inner]

SourceNode(srcset, sizes, media, type) ==
  Node("SOURCE", 0, srcset, sizes, media, type, FALSE, <<>>)
ImgNode(id) == Node("IMG", id, NullStr, NullStr, NullStr, "", FALSE, <<>>)
TextNode == Node("#text", 0, NullStr, NullStr, NullStr, "", FALSE, <<>>)
DivNode == Node("DIV", 0, NullStr, NullStr, NullStr, "", FALSE, <<>>)
VideoNode(inner) == Node("VIDEO", 0, NullStr, NullStr, NullStr, "", FALSE, inner)

Webp == "image/webp"
Svg == "image/svg+xml"

\* picturefill.types as the script leaves it: the three raster types, the
\* svg feature test of the host, and the webp test function
InitialTypes(svg) ==
  [t \in {"image/jpeg", "image/gif", "image/png", Svg, Webp} |->
     IF t = Webp THEN "function"
     ELSE IF t = Svg THEN (IF svg THEN "true" ELSE "false")
     ELSE "true"]

\* picturefill.types[ type ] taking a type without entry for supported: a
\* variant the claims must reject
TypeEntryAssumingSupport(registry, type) ==
  IF type \in DOMAIN registry THEN registry[type] ELSE "true"

\* picturefill.types[ type ]
TypeEntry(registry, type) ==
  IF type \in DOMAIN registry THEN registry[type] ELSE "undefined"

\* verifyTypeSupport running the test again for a type found unsupported: a
\* variant the claims must reject
verifyTypeSupportRetesting(source, registry) ==
  IF source.type = "" THEN [value |-> "true", probed |-> FALSE]
  ELSE IF TypeEntry(registry, source.type) \in {"function", "false"}
  THEN [value |-> "pending", probed |-> TRUE]
  ELSE [value |-> TypeEntry(registry, source.type), probed |-> FALSE]

\* picturefill.verifyTypeSupport: the value returned and whether the type's
\* test function was run
verifyTypeSupport(source, registry) ==
  IF source.type = "" THEN [value |-> "true", probed |-> FALSE]
  ELSE IF TypeEntry(registry, source.type) = "function"
  THEN [value |-> "pending", probed |-> TRUE]
  ELSE [value |-> TypeEntry(registry, source.type), probed |-> FALSE]

-----------------------------------------------------------------------------
(* Source matching.                                                        *)

\* the loop of getMatch from child j on: found with the index of the source,
\* none (undefined) or pending (false), and the type whose test was run
RECURSIVE MatchLoop(_, _, _, _, _)
MatchLoop(img, sources, j, registry, e) ==
  LET none == [result |-> "none", index |-> 0, probed |-> ""]
  IN  IF j > Len(sources) THEN none
      ELSE LET source == sources[j]
               next == MatchLoop(img, sources, j + 1, registry, e)
               media == source.media
               typeSupported == verifyTypeSupport(source, registry)
           IN  IF source.kind = "#text" THEN next
               ELSE IF source.kind = "IMG" /\ source.id = img THEN none
               ELSE IF source.kind # "SOURCE" THEN next
               ELSE IF source.srcset = NullStr \/ source.srcset = <<>> THEN next
               ELSE IF ~(media = NullStr \/ media = <<>> \/ matchesMedia(media, e))
               THEN next
               ELSE IF typeSupported.value = "true"
               THEN [result |-> "found", index |-> j, probed |-> ""]
               ELSE IF typeSupported.value = "pending"
               THEN [result |-> "pending", index |-> 0, probed |-> source.type]
               ELSE next

\* the scan not stopping at the img: a variant the claims must reject
getMatchIgnoringImg(img, sources, registry, e) == MatchLoop(0, sources, 1, registry, e)

\* picturefill.getMatch
getMatch(img, sources, registry, e) == MatchLoop(img, sources, 1, registry, e)

-----------------------------------------------------------------------------
(* Intrinsic width back-fill.                                              *)

\* naturalWidth of a loaded image, in pixels
NaturalPx == 4

\* picturefill.setWidth: width attribute := naturalWidth / res
setWidth(res, picImg) ==
  [picImg EXCEPT !.width = RatDiv(Num(picImg.naturalWidth), res)]

\* picturefill.setInherentSize; readyState is "undefined", "true" or "false".
\* Yields the element and the timeouts it sets (each the arguments bound by
\* goog.partial).
setInherentSize(res, picImg, readyState) ==
  LET ready == IF readyState # "undefined" THEN readyState = "true" ELSE picImg.complete
      widthPreset == ~ready /\ picImg.width # Undef
      img1 == IF ready /\ Truthy(res) /\ ~widthPreset THEN setWidth(res, picImg) ELSE picImg
  IN  [img |-> img1,
       timeouts |-> IF ~ready
                    THEN {[img |-> picImg.id, res |-> res,
                           readyState |-> IF picImg.complete THEN "true" ELSE "false"]}
                    ELSE {}]

-----------------------------------------------------------------------------
(* applyBestCandidate.                                                     *)

\* the test of line 470 never holding: a variant the claims must reject
MixedContentNotBlocked(e, url) == FALSE

\* the mixed-content test of line 470
MixedContentBlocked(e, url) ==
  restrictsMixedContent(e) /\ toLowerCase(Prefix(url, 5)) = HttpColon

\* picturefill.applyBestCandidate: the element afterwards, the candidate chosen,
\* whether the resource was swapped, whether the swap was refused, and the
\* timeouts set.  A swap starts a load: the element is complete at once only
\* when the host has the resource available (e.avail).
applyBestCandidate(candidates, picImg, e) ==
  LET best == BestCandidate(candidates, e.dpr)
      idle == [img |-> picImg, best |-> best, swapped |-> FALSE, blocked |-> FALSE,
               timeouts |-> {}]
  IN  IF best = NoCandidate \/ endsWith(picImg.src, best.url) THEN idle
      ELSE IF MixedContentBlocked(e, best.url) THEN [idle EXCEPT !.blocked = TRUE]
      ELSE LET src1 == ResolveUrl(best.url, e)
               img1 == [picImg EXCEPT !.src = src1, !.currentSrc = src1,
                                      !.complete = e.avail,
                                      !.naturalWidth = IF e.avail THEN NaturalPx ELSE 0]
               sized == setInherentSize(best.resolution, img1, "undefined")
           IN  [img |-> sized.img, best |-> best, swapped |-> TRUE, blocked |-> FALSE,
                timeouts |-> sized.timeouts]

-----------------------------------------------------------------------------
(* Elements and the host.                                                  *)

\* an img element: attributes, properties and the picturefill expando
\* (hasNs: the expando exists; evaluated and nsSrcset are its fields)
NewImg(id, src, srcset, sizes) ==
  [kind |-> "IMG", id |-> id, src |-> src, currentSrc |-> <<>>, srcset |-> srcset,
   sizes |-> sizes,
   pfsrcset |-> NullStr, hasNs |-> FALSE, evaluated |-> FALSE, nsSrcset |-> NullStr,
   complete |-> TRUE, width |-> Undef, naturalWidth |-> 0]

-----------------------------------------------------------------------------
(* The evaluation pass.                                                    *)

\* img.srcset as a property: undefined (NullStr) when Image has no srcset
\* property, else the attribute's value, "" when the attribute is absent
srcsetProp(img, e) ==
  IF ~e.srcsetSupported THEN NullStr
  ELSE IF img.srcset = NullStr THEN <<>> ELSE img.srcset

\* picturefill.dodgeSrcset
dodgeSrcset(img, e) ==
  IF srcsetProp(img, e) \notin {NullStr, <<>>}
  THEN [img EXCEPT !.nsSrcset = srcsetProp(img, e), !.srcset = <<>>,
                   !.pfsrcset = srcsetProp(img, e)]
  ELSE img

\* the srcset that picturefill.processSourceSet reads: for an img element the
\* cached one of the expando when there is one, else the attribute
SourceSetOf(el) ==
  IF el.kind = "IMG" /\ el.hasNs /\ el.nsSrcset \notin {NullStr, <<>>}
  THEN el.nsSrcset ELSE el.srcset

\* picturefill.processSourceSet
processSourceSet(el, e) ==
  IF SourceSetOf(el) \in {NullStr, <<>>} THEN <<>>
  ELSE getCandidatesFromSourceSet(SourceSetOf(el), el.sizes, e)

\* picturefill.removeVideoShim: the sources inside the first video take its
\* place among the children of the picture
RECURSIVE removeVideoShim(_)
removeVideoShim(children) ==
  IF children = <<>> THEN <<>>
  ELSE IF children[1].kind = "VIDEO" THEN children[1].inner \o Drop(children, 1)
  ELSE <<children[1]>> \o removeVideoShim(Drop(children, 1))

\* whether the srcset of the img is to be cached and removed (lines 654-656)
Dodges(img, inPicture, e) ==
  \/ inPicture
  \/ (srcsetProp(img, e) \notin {NullStr, <<>>} /\ ~e.srcsetSupported)
  \/ (~e.sizesSupported /\ srcsetProp(img, e) \notin {NullStr, <<>>}
        /\ Contains(srcsetProp(img, e), <<"w">>))

NoLog == [outcome |-> "none", match |-> 0, best |-> NoCandidate, applied |-> FALSE,
          swapped |-> FALSE, blocked |-> FALSE]

\* the test of line 628 never skipping: a variant the claims must reject
ReevaluatesAlways(force, img) == TRUE

\* the test of line 628 negated: the element is gone through
Reevaluates(force, img) == force \/ ~img.evaluated

\* the end of an iteration without line 674: a variant the claims must reject
ShimEvaluateUnmarked(p, st, el1, doc1, index, applies, applied) ==
  [st EXCEPT !.imgs[p] = IF applies THEN applied.img ELSE el1,
             !.doc = doc1,
             !.sizers = IF applies THEN st.sizers \cup applied.timeouts ELSE st.sizers,
             !.log[p] = [outcome |-> "evaluated", match |-> index,
                         best |-> IF applies THEN applied.best ELSE NoCandidate,
                         applied |-> applies,
                         swapped |-> applies /\ applied.swapped,
                         blocked |-> applies /\ applied.blocked]]

\* the end of an iteration of picturefill.shim (lines 650-674): the element
\* is evaluated, with the candidate applied when the condition of line 663
\* (applies) holds
ShimEvaluate(p, st, el1, doc1, index, applies, applied) ==
  [st EXCEPT !.imgs[p] = [(IF applies THEN applied.img ELSE el1)
                            EXCEPT !.evaluated = TRUE],
             !.doc = doc1,
             !.sizers = IF applies THEN st.sizers \cup applied.timeouts ELSE st.sizers,
             !.log[p] = [outcome |-> "evaluated", match |-> index,
                         best |-> IF applies THEN applied.best ELSE NoCandidate,
                         applied |-> applies,
                         swapped |-> applies /\ applied.swapped,
                         blocked |-> applies /\ applied.blocked]]

\* lines 641-674 removing the evaluated flag of an element found pending, as
\* the comment of lines 643-645 has it: a variant the claims must reject
ShimMatchedClearing(p, st, el0, el1, children, doc1, firstMatch, e) ==
  IF firstMatch.result = "pending"
  THEN [st EXCEPT !.imgs[p] = [el0 EXCEPT !.evaluated = FALSE], !.doc = doc1,
                  !.probe = "Loading",
                  !.probes = Append(st.probes, firstMatch.probed),
                  !.log[p] = [NoLog EXCEPT !.outcome = "pending"]]
  ELSE ShimEvaluate(p, st, el1, doc1, firstMatch.index,
                    \/ firstMatch.result = "found"
                    \/ srcsetProp(el1, e) = NullStr
                    \/ el1.nsSrcset \notin {NullStr, <<>>},
                    applyBestCandidate(
                      processSourceSet(IF firstMatch.result = "found"
                                       THEN children[firstMatch.index] ELSE el1, e),
                      el1, e))

\* lines 641-674 of picturefill.shim, firstMatch being the result of getMatch
\* (none outside a picture) and el1 the element after dodgeSrcset
ShimMatched(p, st, el0, el1, children, doc1, firstMatch, e) ==
  IF firstMatch.result = "pending"
  THEN [st EXCEPT !.imgs[p] = el0, !.doc = doc1,
                  !.probe = "Loading",
                  !.probes = Append(st.probes, firstMatch.probed),
                  !.log[p] = [NoLog EXCEPT !.outcome = "pending"]]
  ELSE ShimEvaluate(p, st, el1, doc1, firstMatch.index,
                    \/ firstMatch.result = "found"
                    \/ srcsetProp(el1, e) = NullStr
                    \/ el1.nsSrcset \notin {NullStr, <<>>},
                    applyBestCandidate(
                      processSourceSet(IF firstMatch.result = "found"
                                       THEN children[firstMatch.index] ELSE el1, e),
                      el1, e))

\* lines 630-640 of picturefill.shim: the video shim is removed and the first
\* matching source looked for, for an img inside a picture
ShimPicture(p, st, el0, inPicture, children, e) ==
  ShimMatched(p, st, el0,
              IF Dodges(el0, inPicture, e) THEN dodgeSrcset(el0, e) ELSE el0,
              children, [st.doc EXCEPT ![p].children = children],
              IF inPicture THEN getMatch(p, children, st.types, e)
              ELSE [result |-> "none", index |-> 0, probed |-> ""],
              e)

\* One iteration of the loop of picturefill.shim, for an img element p of the
\* list.  st holds the elements, the children of their pictures, the probe,
\* the timeouts of setInherentSize, and the log of what was done to each
\* element in the pass.
ShimStep(p, st, force, e) ==
  IF ~Reevaluates(force, st.imgs[p])
  THEN [st EXCEPT !.imgs[p].hasNs = TRUE,
                  !.log[p] = [NoLog EXCEPT !.outcome = "skipped"]]
  ELSE ShimPicture(p, st, [st.imgs[p] EXCEPT !.hasNs = TRUE], st.doc[p].picture,
                   IF st.doc[p].picture THEN removeVideoShim(st.doc[p].children)
                   ELSE st.doc[p].children, e)

\* the loop of picturefill.shim over the elements from index i on; an element
\* that is not an img (0 in the list) is skipped
RECURSIVE ShimLoop(_, _, _, _, _)
ShimLoop(elements, i, st, force, e) ==
  IF i > Len(elements) THEN st
  ELSE IF elements[i] = 0 THEN ShimLoop(elements, i + 1, st, force, e)
  ELSE ShimLoop(elements, i + 1, ShimStep(elements[i], st, force, e), force, e)

\* the sequence of the members of a set of numbers in ascending order
RECURSIVE Ascending(_)
Ascending(S) ==
  IF S = {} THEN <<>>
  ELSE LET m == CHOOSE x \in S : \A y \in S : x <= y
       IN  <<m>> \o Ascending(S \ {m})

\* picturefill.getAllElements: the img elements, in document order, that have
\* a picture parent, a srcset attribute or the expando
getAllElements(images, document) ==
  Ascending({p \in DOMAIN images :
               \/ document[p].picture
               \/ images[p].srcset # NullStr
               \/ images[p].hasNs})

-----------------------------------------------------------------------------
(* The state machine: the script's handlers and the host's events.         *)

MediaA == <<"(", "a", ")">>
UrlA == <<"a">>

Imgs == {1, 2}

NoTimer == -1

\* the delay of the resize timeout (line 682)
ResizeDelay == 60

NoTime == -1

\* the host as the handlers of one step see it
HostNow ==
  [media |-> env.media, dpr |-> env.dpr, protocol |-> env.protocol, avail |-> env.avail,
   viewport |-> env.viewport, otherPx |-> 0,
   srcsetSupported |-> env.srcsetSupported, sizesSupported |-> env.sizesSupported]

\* the history kept for the claims: the last operation, for a pass its
\* arguments, what it did to each element and the probes it ran; the elements
\* whose last evaluation was deferred as pending; the time since the first
\* resize signal after the last pass of afterResize_ and since the last resize
\* signal, and the former when the resize timeout last expired
History(op, force, elements, log, probes, deferred, burstAge, sinceLast, firedAge) ==
  [op |-> op, force |-> force, elements |-> elements, log |-> log, probes |-> probes,
   deferred |-> deferred, burstAge |-> burstAge, sinceLast |-> sinceLast,
   firedAge |-> firedAge]

NoLogs == [p \in Imgs |-> NoLog]

\* the machine's variables while only a pure function is exercised
Parked ==
  /\ types = InitialTypes(TRUE) /\ probe = "Idle" /\ imgs = <<>> /\ env = <<>>
  /\ working = FALSE /\ timer = NoTimer /\ sizers = {} /\ doc = <<>>
  /\ hist = History("none", FALSE, <<>>, NoLogs, <<>>, {}, NoTime, NoTime, NoTime)

\* the history after a step that is no pass
Event(op) ==
  [hist EXCEPT !.op = op, !.force = FALSE, !.elements = <<>>, !.log = NoLogs,
               !.probes = <<>>]

\* picturefill.shim( opt ) run to its end from the registry and probe given;
\* `elements` is the list given, or <<-1>> for none (null or undefined): then
\* getAllElements() is gone through
shim(elements, force, e, registry, probing) ==
  LET list == IF elements = <<-1>> THEN getAllElements(imgs, doc) ELSE elements
  IN  ShimLoop(list, 1,
               [imgs |-> imgs, doc |-> doc, types |-> registry, probe |-> probing,
                sizers |-> sizers, probes |-> <<>>, log |-> NoLogs],
               force, e)

\* the elements a pass left deferred: those it found pending, and those
\* deferred before that it did not evaluate
DeferredAfter(log) ==
  {p \in Imgs : \/ log[p].outcome = "pending"
                \/ (p \in hist.deferred /\ log[p].outcome # "evaluated")}

\* the state after a pass, with its history
Passed(op, elements, force, registry, probing) ==
  \E st \in {shim(elements, force, HostNow, registry, probing)} :
      /\ imgs' = st.imgs
      /\ doc' = st.doc
      /\ types' = st.types
      /\ probe' = st.probe
      /\ sizers' = st.sizers
      /\ hist' = History(op, force, elements, st.log, st.probes, DeferredAfter(st.log),
                         IF op = "afterResize" THEN NoTime ELSE hist.burstAge,
                         hist.sinceLast,
                         IF op = "afterResize" THEN hist.burstAge ELSE hist.firedAge)

\* picturefill.init
Start ==
  /\ ~env.listening
  /\ Passed("init", <<-1>>, FALSE, types, probe)
  /\ env' = [env EXCEPT !.listening = TRUE]
  /\ UNCHANGED <<call, working, timer>>

ElementLists == {<<-1>>, <<0, 1>>}

\* a call of picturefill.shim by the page
ShimCall ==
  /\ \E elements \in ElementLists, force \in BOOLEAN :
       Passed("shim", elements, force, types, probe)
  /\ UNCHANGED <<call, env, working, timer>>

\* a checkResize that restarts the timeout at every signal: a variant the
\* claims must reject
checkResizeRestarting(w, t) == [working |-> TRUE, timer |-> ResizeDelay]

\* picturefill.checkResize: picturefillWorking_ and resizeThrottle afterwards
checkResize(w, t) ==
  IF ~w THEN [working |-> TRUE, timer |-> ResizeDelay]
  ELSE [working |-> w, timer |-> t]

\* a resize event
CheckResize ==
  /\ env.listening
  /\ working' = checkResize(working, timer).working
  /\ timer' = checkResize(working, timer).timer
  /\ hist' = [Event("event") EXCEPT !.burstAge = IF @ = NoTime THEN 0 ELSE @,
                                     !.sinceLast = 0]
  /\ UNCHANGED <<call, types, probe, imgs, env, sizers, doc>>

\* afterResize_ without line 688: a variant the claims must reject
AfterResizeKeepingGuard ==
  /\ timer = 0
  /\ Passed("afterResize", <<-1>>, TRUE, types, probe)
  /\ timer' = NoTimer
  /\ UNCHANGED <<call, env, working>>

\* picturefill.afterResize_, when the resize timeout expires
AfterResize ==
  /\ timer = 0
  /\ Passed("afterResize", <<-1>>, TRUE, types, probe)
  /\ working' = FALSE
  /\ timer' = NoTimer
  /\ UNCHANGED <<call, env>>

Later(t, k) ==
  IF t = NoTime THEN NoTime
  ELSE IF t + k > ResizeDelay THEN ResizeDelay + 1 ELSE t + k

\* k units of time pass, no timeout expiring before
TimePasses(k) ==
  /\ timer' = IF timer = NoTimer THEN NoTimer ELSE timer - k
  /\ hist' = [Event("event") EXCEPT !.burstAge = Later(@, k),
                                     !.sinceLast = Later(@, k)]
  /\ UNCHANGED <<call, types, probe, imgs, env, working, sizers, doc>>

\* time passes until the resize timeout expires
Elapse == timer > 0 /\ TimePasses(timer)

\* one unit of time passes
Tick ==
  /\ timer # 0
  /\ timer > 0 \/ (hist.sinceLast # NoTime /\ hist.sinceLast <= ResizeDelay)
  /\ TimePasses(1)

\* the error or load event of the image of the webp test: the handlers set by
\* picturefill.types['image/webp'] (lines 101-108) store the result and run
\* picturefill.shim()
ProbeResolve ==
  /\ probe = "Loading"
  /\ \E event \in {"error", "load"}, width \in {0, 1} :
       Passed("probe", <<-1>>, FALSE,
              [types EXCEPT ![Webp] = IF event = "load" /\ width = 1
                                      THEN "true" ELSE "false"],
              "Idle")
  /\ UNCHANGED <<call, env, working, timer>>

\* the host finishes loading the resource of an img
ImgLoad ==
  /\ \E p \in Imgs :
       /\ ~imgs[p].complete
       /\ imgs' = [imgs EXCEPT ![p].complete = TRUE, ![p].naturalWidth = NaturalPx]
  /\ hist' = Event("event")
  /\ UNCHANGED <<call, types, probe, env, working, timer, sizers, doc>>

\* a timeout of setInherentSize expires
SizerFire ==
  /\ \E t \in sizers :
       LET sized == setInherentSize(t.res, imgs[t.img], t.readyState)
       IN  /\ imgs' = [imgs EXCEPT ![t.img] = sized.img]
           /\ sizers' = (sizers \ {t}) \cup sized.timeouts
  /\ hist' = Event("event")
  /\ UNCHANGED <<call, types, probe, env, working, timer, doc>>

\* the media queries that match change
HostChange ==
  /\ \E m \in {{}, {MediaA}} : m # env.media /\ env' = [env EXCEPT !.media = m]
  /\ hist' = Event("event")
  /\ UNCHANGED <<call, types, probe, imgs, working, timer, sizers, doc>>

-----------------------------------------------------------------------------
(* The documents gone through and the specification of the machine.        *)

FourPx == <<"4", "p", "x">>
SetAB == <<"a", " ", "1", "x", ",", " ", "b", " ", "2", "x">>
SetC == <<"h", "t", "t", "p", ":", "c">>
SetW == <<"d", " ", "4", "w">>
UrlE == <<"e">>

\* an img in its picture, or alone: the children of the picture and the img
\* as the document has it
Placed(kind, p) ==
  CASE kind = "webp-by-media" ->
         [picture |-> TRUE,
          children |-> <<SourceNode(SetAB, NullStr, MediaA, Webp), ImgNode(p)>>,
          img |-> NewImg(p, <<>>, SetC, NullStr)]
    [] kind = "webp-in-video" ->
         [picture |-> TRUE,
          children |-> <<VideoNode(<<SourceNode(SetAB, NullStr, NullStr, Webp)>>),
                         TextNode, ImgNode(p)>>,
          img |-> NewImg(p, UrlE, NullStr, NullStr)]
    [] kind = "plain" ->
         [picture |-> FALSE, children |-> <<>>,
          img |-> NewImg(p, <<>>, SetW, FourPx)]
    [] kind = "http-by-media" ->
         [picture |-> TRUE,
          children |-> <<SourceNode(SetC, NullStr, MediaA, ""),
                         SourceNode(SetAB, NullStr, NullStr, Svg), ImgNode(p)>>,
          img |-> NewImg(p, UrlE, NullStr, NullStr)]

Documents == {<<"webp-by-media", "webp-in-video">>, <<"http-by-media", "plain">>}

\* the hosts gone through: a secure page on a dense display whose Image has
\* no srcset property and that loads resources later, and a plain page on a
\* display of ratio 1 whose Image has srcset and that has resources at hand
Hosts ==
  {[media |-> {}, dpr |-> Num(2), protocol |-> HttpsColon, viewport |-> 2,
    srcsetSupported |-> FALSE, sizesSupported |-> FALSE, avail |-> FALSE,
    listening |-> FALSE],
   [media |-> {}, dpr |-> Num(1), protocol |-> HttpColon, viewport |-> 2,
    srcsetSupported |-> TRUE, sizesSupported |-> FALSE, avail |-> TRUE,
    listening |-> FALSE]}

InitWith(documents, hosts) ==
  /\ call = [op |-> "none"]
  /\ \E d \in documents :
       /\ doc = [p \in Imgs |-> [picture |-> Placed(d[p], p).picture,
                                 children |-> Placed(d[p], p).children]]
       /\ imgs = [p \in Imgs |-> Placed(d[p], p).img]
  /\ types = InitialTypes(TRUE)
  /\ env \in hosts
  /\ probe = "Idle" /\ working = FALSE /\ timer = NoTimer /\ sizers = {}
  /\ hist = History("none", FALSE, <<>>, NoLogs, <<>>, {}, NoTime, NoTime, NoTime)

Init == InitWith(Documents, Hosts)

Next ==
  \/ Start
  \/ ShimCall
  \/ CheckResize
  \/ Elapse
  \/ AfterResize
  \/ ProbeResolve
  \/ ImgLoad
  \/ SizerFire
  \/ HostChange

Spec == Init /\ [][Next]_vars

-----------------------------------------------------------------------------
(* Candidate selection exercised alone: applyBestCandidate on every        *)
(* candidate list up to MaxCands, then again on a reordering of the list   *)
(* or at another device pixel ratio.                                       *)

MaxCands == 3

SelUrls == {<<"a">>, <<"b">>}
SelResolutions == {Num(1), Rat(3, 2), Num(3)}
SelDprs == {Undef, Num(1), Num(2), Num(4)}

SelCandidates == [url : SelUrls, resolution : SelResolutions]

SeqsUpTo(S, k) == UNION {[1..m -> S] : m \in 0..k}

Permutations_(s) ==
  {[i \in 1..Len(s) |-> s[f[i]]] : f \in {g \in [1..Len(s) -> 1..Len(s)] :
                                           \A i, j \in 1..Len(s) : g[i] = g[j] => i = j}}

SelHost(dprRaw) == [BaseHost EXCEPT !.dpr = dprRaw]

SelCall(candidates, dprRaw, prev) ==
  [op |-> "applyBestCandidate", candidates |-> candidates, dpr |-> dprRaw,
   out |-> applyBestCandidate(candidates, NewImg(1, <<>>, NullStr, NullStr),
                              SelHost(dprRaw)),
   prev |-> prev]

NoPrev == [none |-> TRUE]

SelInit ==
  /\ Parked
  /\ call \in [op : {"ready"}, candidates : SeqsUpTo(SelCandidates, MaxCands),
               dpr : SelDprs]

\* the first call
SelApply ==
  /\ call.op = "ready"
  /\ call' = SelCall(call.candidates, call.dpr, NoPrev)
  /\ UNCHANGED mvars

\* a second call with the same candidates parsed in another order
SelReorder ==
  /\ call.op = "applyBestCandidate" /\ call.prev = NoPrev
  /\ \E perm \in Permutations_(call.candidates) :
       call' = SelCall(perm, call.dpr,
                       [candidates |-> call.candidates, dpr |-> call.dpr,
                        best |-> call.out.best])
  /\ UNCHANGED mvars

\* a second call with the same candidates at another device pixel ratio
SelRescale ==
  /\ call.op = "applyBestCandidate" /\ call.prev = NoPrev
  /\ \E d \in SelDprs :
       call' = SelCall(call.candidates, d,
                       [candidates |-> call.candidates, dpr |-> call.dpr,
                        best |-> call.out.best])
  /\ UNCHANGED mvars

SelNext == SelApply \/ SelReorder \/ SelRescale

SpecSelect == SelInit /\ [][SelNext]_vars

-----------------------------------------------------------------------------
(* Claims about candidate selection (under SpecSelect).                    *)

SelDone == call.op = "applyBestCandidate"

ResolutionsOf(c) == {c[i].resolution : i \in 1..Len(c)}

\* C1: for a non-empty candidate list and device pixel ratio d the candidate
\* chosen is one of the list whose resolution is the smallest one >= d, or,
\* when none reaches d, the highest of the list; for an empty list nothing is
\* chosen and the element is left as it was.
C1_SmallestSufficientOrHighest ==
  SelDone =>
    LET c == call.candidates
        d == getDpr(call.dpr)
        best == call.out.best
        reach == {r \in ResolutionsOf(c) : RatGeq(r, d)}
    IN  IF c = <<>>
        THEN /\ best = NoCandidate
             /\ ~call.out.swapped
             /\ call.out.img = NewImg(1, <<>>, NullStr, NullStr)
        ELSE /\ \E i \in 1..Len(c) : c[i] = best
             /\ IF reach # {}
                THEN best.resolution \in reach
                     /\ \A r \in reach : RatLeq(best.resolution, r)
                ELSE \A r \in ResolutionsOf(c) : RatLeq(r, best.resolution)

\* a call in which a higher candidate was parsed first and a lower one that
\* still reaches the device pixel ratio is chosen, and is swapped in
C1_Witness ==
  /\ SelDone /\ Len(call.candidates) = 3
  /\ call.candidates[1].resolution = Num(3)
  /\ call.dpr = Num(1)
  /\ call.out.best.resolution = Num(1)
  /\ call.out.swapped

\* C9: for the same candidates, a device pixel ratio that is not lower gives a
\* chosen resolution that is not lower, and the chosen resolution never
\* exceeds the highest resolution of the list.
C9_MonotoneInDpr ==
  (SelDone /\ call.candidates # <<>>) =>
    /\ \A r \in ResolutionsOf(call.candidates) :
         (\A q \in ResolutionsOf(call.candidates) : RatLeq(q, r))
           => RatLeq(call.out.best.resolution, r)
    /\ (call.prev # NoPrev /\ call.prev.candidates = call.candidates)
         => /\ RatLeq(getDpr(call.prev.dpr), getDpr(call.dpr))
                => RatLeq(call.prev.best.resolution, call.out.best.resolution)
            /\ RatLeq(getDpr(call.dpr), getDpr(call.prev.dpr))
                => RatLeq(call.out.best.resolution, call.prev.best.resolution)

\* the device pixel ratio rose between two calls and so did the choice
C9_Witness ==
  /\ SelDone /\ call.prev # NoPrev
  /\ call.prev.candidates = call.candidates
  /\ RatGt(getDpr(call.dpr), getDpr(call.prev.dpr))
  /\ RatGt(call.out.best.resolution, call.prev.best.resolution)

\* C10 as stated: whatever the order the candidates were parsed in, the same
\* URL is chosen, also when several candidates have the same resolution.
C10_SameUrlInAnyOrder ==
  (SelDone /\ call.prev # NoPrev /\ call.prev.dpr = call.dpr)
    => call.prev.best.url = call.out.best.url

\* C10 amended: the resolution chosen does not depend on the order; among the
\* candidates of that resolution the one chosen is the first parsed when the
\* resolution reaches the device pixel ratio and the last parsed when it does
\* not, so the URL is the same in every order when the candidates of that
\* resolution all have the same URL.
C10_SameResolutionInAnyOrder ==
  (SelDone /\ call.prev # NoPrev /\ call.prev.dpr = call.dpr /\ call.candidates # <<>>)
    => LET c == call.candidates
           best == call.out.best
           same == {i \in 1..Len(c) : c[i].resolution = best.resolution}
       IN  /\ call.prev.best.resolution = best.resolution
           /\ same # {}
           /\ \E i \in same :
                /\ c[i] = best
                /\ IF RatGeq(best.resolution, getDpr(call.dpr))
                   THEN \A j \in same : i <= j
                   ELSE \A j \in same : j <= i
           /\ Cardinality({c[i].url : i \in same}) = 1 => call.prev.best = best

\* the candidates were parsed in two different orders and the choice is the
\* same candidate, which is not the first of either order
C10_Witness ==
  /\ SelDone /\ call.prev # NoPrev /\ call.prev.dpr = call.dpr
  /\ call.prev.candidates # call.candidates
  /\ Len(call.candidates) = 3
  /\ call.out.best = call.prev.best
  /\ call.out.best # call.candidates[1]
  /\ call.out.best # call.prev.candidates[1]

-----------------------------------------------------------------------------
(* The descriptor resolver exercised alone: parseDescriptor on every       *)
(* descriptor up to MaxDescLen characters, for widths from the default     *)
(* sizes and from a sizes attribute.                                       *)

MaxDescLen == 4

DescChars == {"-", "0", "2", "x", "w", " "}

\* sizes attribute and offsetWidth of the document element
DescLayouts ==
  {[sizes |-> NullStr, viewport |-> 2], [sizes |-> FourPx, viewport |-> 2],
   [sizes |-> NullStr, viewport |-> 0]}

DescHost(c) ==
  [BaseHost EXCEPT !.viewport = c.layout.viewport, !.sizesSupported = c.sizesSupported]

DescInit ==
  /\ Parked
  /\ call \in [op : {"ready"},
               descriptor : SeqsUpTo(DescChars, MaxDescLen) \cup {NullStr},
               layout : DescLayouts, sizesSupported : BOOLEAN]

DescApply ==
  /\ call.op = "ready"
  /\ call' = [op |-> "parseDescriptor", descriptor |-> call.descriptor,
              layout |-> call.layout, sizesSupported |-> call.sizesSupported,
              width |-> findWidthFromSourceSize(
                          IF call.layout.sizes = NullStr THEN FullWidth
                          ELSE call.layout.sizes, DescHost(call)),
              out |-> parseDescriptor(call.descriptor, call.layout.sizes, DescHost(call))]
  /\ UNCHANGED mvars

DescNext == DescApply

SpecDescriptor == DescInit /\ [][DescNext]_vars

\* C8: the resolution the descriptor resolver returns is strictly positive,
\* for every descriptor, negative and zero numbers included, and every width.
C8_ResolutionPositive ==
  call.op = "parseDescriptor" => RatGt(call.out, Num(0))

\* the tokens of the descriptor of the call
DescTokens == split(trim(call.descriptor), " ")

\* whether a token is one the resolver computes a value from
TokenMatches(token) ==
  /\ token # <<>>
  /\ \/ token[Len(token)] = "x"
     \/ (token[Len(token)] \in {"w", "h"} /\ ~call.sizesSupported)

\* the value of a token that matches: its decimal value, or its pixel value
\* over the resolved width
TokenValue(token) ==
  IF token[Len(token)] = "x" THEN parseFloat(token)
  ELSE RatDiv(parseInt(token), Num(call.width))

\* the tokens that match
DescMatching == {i \in 1..Len(DescTokens) : TokenMatches(DescTokens[i])}

\* C13 as stated: the resolution of a descriptor is the value of its first
\* token, left to right, that matches: the decimal value of an x token, the
\* pixel value over the resolved width of a w or h token; it is 1 with no
\* matching token and for a null or empty descriptor.
C13_FirstTokenValueReturned ==
  call.op = "parseDescriptor" =>
    call.out = IF call.descriptor = NullStr \/ DescMatching = {} THEN Num(1)
               ELSE TokenValue(DescTokens[CHOOSE i \in DescMatching :
                                            \A j \in DescMatching : i <= j])

\* C13 amended: the resolution of a descriptor is computed from its first token, left
\* to right, that matches (suffix x, or suffix w or h when sizes is not
\* supported natively): the decimal value of an x token, the pixel value over
\* the resolved width of a w or h token, 1 standing for a value that is zero
\* or not a number; it is 1 with no matching token and for a null or empty
\* descriptor.
C13_FirstTokenSurvives ==
  call.op = "parseDescriptor" =>
    call.out = IF call.descriptor = NullStr \/ DescMatching = {} THEN Num(1)
               ELSE OrOne(TokenValue(DescTokens[CHOOSE i \in DescMatching :
                                                  \A j \in DescMatching : i <= j]))

\* a descriptor of several tokens whose first and last tokens match with
\* different values
C13_Witness ==
  /\ call.op = "parseDescriptor" /\ call.descriptor # NullStr
  /\ Len(DescTokens) >= 2
  /\ TokenMatches(DescTokens[1]) /\ TokenMatches(DescTokens[Len(DescTokens)])
  /\ OrOne(TokenValue(DescTokens[1])) # OrOne(TokenValue(DescTokens[Len(DescTokens)]))
  /\ call.out = OrOne(TokenValue(DescTokens[1]))

-----------------------------------------------------------------------------
(* Source matching exercised alone: getMatch on every picture of up to     *)
(* MaxSiblings children beside the img, for every state of the webp entry  *)
(* of the registry and with the media query matching or not.               *)

MaxSiblings == 2

\* a MIME type picturefill.types has no entry for
Unregistered == "image/x"

MatchNodes ==
  {SourceNode(srcset, NullStr, media, type) :
     srcset \in {NullStr, <<>>, UrlA}, media \in {NullStr, MediaA},
     type \in {"", Webp, Unregistered}}
  \cup {TextNode, DivNode}

\* s with node x inserted so that it becomes the k-th element
InsertAt(s, k, x) == SubSeq(s, 1, k - 1) \o <<x>> \o SubSeq(s, k, Len(s))

MatchRegistry(webp) == [InitialTypes(TRUE) EXCEPT ![Webp] = webp]

MatchInit ==
  /\ Parked
  /\ \E siblings \in SeqsUpTo(MatchNodes, MaxSiblings) :
       \E k \in 1..(Len(siblings) + 1) :
         call \in [op : {"ready"}, sources : {InsertAt(siblings, k, ImgNode(1))},
                   webp : {"function", "true", "false"}, media : {{}, {MediaA}}]

MatchApply ==
  /\ call.op = "ready"
  /\ call' = [op |-> "getMatch", sources |-> call.sources, webp |-> call.webp,
              media |-> call.media,
              out |-> getMatch(1, call.sources, MatchRegistry(call.webp),
                               [BaseHost EXCEPT !.media = call.media])]
  /\ UNCHANGED mvars

MatchNext == MatchApply

SpecMatch == MatchInit /\ [][MatchNext]_vars

\* the outcome the claim describes for the picture of the call, a declaration
\* counting as having a descriptor list when its srcset is not among `without`
MatchExpected(without) ==
  LET c == call.sources
      at == CHOOSE j \in 1..Len(c) : c[j].kind = "IMG" /\ c[j].id = 1
      passes(j) == /\ c[j].kind = "SOURCE"
                   /\ c[j].srcset \notin without
                   /\ (c[j].media \in {NullStr, <<>>} \/ c[j].media \in call.media)
      good(j) == passes(j) /\ (c[j].type = "" \/ (c[j].type = Webp /\ call.webp = "true"))
      pend(j) == passes(j) /\ c[j].type = Webp /\ call.webp = "function"
      hits == {j \in 1..(at - 1) : good(j) \/ pend(j)}
      first == CHOOSE j \in hits : \A k \in hits : j <= k
  IN  IF hits = {} THEN [result |-> "none", index |-> 0]
      ELSE IF good(first) THEN [result |-> "found", index |-> first]
      ELSE [result |-> "pending", index |-> 0]

MatchOutcome == [result |-> call.out.result, index |-> call.out.index]

\* C7 as stated: getMatch returns Found(s) for the first declaration before
\* the placeholder that has a descriptor-list attribute, whose media
\* condition is absent or holds and whose type is absent or Supported;
\* Pending if a declaration passing the media test with a Pending type comes
\* first; NotFound otherwise.
C7_FirstDeclarationWithAttribute ==
  call.op = "getMatch" => MatchOutcome = MatchExpected({NullStr})

\* C7 amended: the same, a declaration being considered only when its
\* descriptor-list attribute is present and not empty.
C7_FirstDeclarationWithNonEmptyList ==
  call.op = "getMatch" => MatchOutcome = MatchExpected({NullStr, <<>>})

\* the second declaration is found, the first having a media condition that
\* does not hold
C7_Witness ==
  /\ call.op = "getMatch" /\ Len(call.sources) = 3
  /\ call.out.result = "found" /\ call.out.index = 2
  /\ call.sources[1].kind = "SOURCE" /\ call.sources[1].media = MediaA
  /\ call.sources[1].srcset = UrlA /\ call.media = {}
  /\ call.sources[3].kind = "IMG"

\* the place of the img among the children of the call
MatchImgAt ==
  CHOOSE j \in 1..Len(call.sources) :
    call.sources[j].kind = "IMG" /\ call.sources[j].id = 1

\* child j is a declaration with a descriptor-list attribute whose media
\* condition is absent or holds
MatchTested(j) ==
  /\ call.sources[j].kind = "SOURCE"
  /\ call.sources[j].srcset # NullStr
  /\ (call.sources[j].media \in {NullStr, <<>>} \/ call.sources[j].media \in call.media)

\* child j is a declaration that matches: its descriptor list is not empty,
\* its media condition is absent or holds, its type is absent or Supported
MatchFound(j) ==
  /\ MatchTested(j)
  /\ call.sources[j].srcset # <<>>
  /\ \/ call.sources[j].type = ""
     \/ TypeEntry(MatchRegistry(call.webp), call.sources[j].type) = "true"

\* C21: getMatch invokes the probe of a MIME type only when the scan reaches
\* a declaration of that type, before the placeholder, that has a
\* descriptor-list attribute and whose media condition is absent or holds,
\* no earlier declaration having matched; so it is not invoked after a
\* match, for a declaration whose media condition is false, or for one that
\* follows the placeholder.
C21_ProbeOnlyForReachedDeclaration ==
  call.op = "getMatch" =>
    \A t \in {Webp, Unregistered} :
      call.out.probed = t =>
        /\ TypeEntry(MatchRegistry(call.webp), t) = "function"
        /\ \E j \in 1..(MatchImgAt - 1) :
             /\ call.sources[j].type = t
             /\ MatchTested(j)
             /\ \A k \in 1..(j - 1) : ~MatchFound(k)

\* the probe is invoked for the second declaration, the first being of the
\* same type with a media condition that does not hold
C21_Witness ==
  /\ call.op = "getMatch" /\ Len(call.sources) = 3
  /\ call.out.probed = Webp /\ call.media = {}
  /\ call.sources[1].kind = "SOURCE" /\ call.sources[1].type = Webp
  /\ call.sources[1].media = MediaA /\ call.sources[1].srcset = UrlA
  /\ call.sources[2].kind = "SOURCE" /\ call.sources[2].type = Webp
  /\ call.sources[3].kind = "IMG"

\* the registry of the call with the type without entry entered as
\* Unsupported
MatchRegistryRefusing == (Unregistered :> "false") @@ MatchRegistry(call.webp)

\* C23: a declaration whose type has no entry in the registry is handled
\* like one of an Unsupported type: getMatch returns what it returns with
\* the type entered as Unsupported, so the scan goes on with the next
\* sibling; such a declaration is never the one found, and no probe is
\* invoked and no Pending returned because of it.
C23_UnregisteredTypeIsUnsupported ==
  call.op = "getMatch" =>
    /\ call.out = getMatch(1, call.sources, MatchRegistryRefusing,
                           [BaseHost EXCEPT !.media = call.media])
    /\ call.out.result = "found" => call.sources[call.out.index].type # Unregistered
    /\ call.out.probed # Unregistered
    /\ call.out.result = "pending" => call.out.probed = Webp

\* the second declaration is found, the first being one that would match
\* but for its type, which has no entry
C23_Witness ==
  /\ call.op = "getMatch" /\ Len(call.sources) = 3
  /\ call.sources[1].kind = "SOURCE" /\ call.sources[1].type = Unregistered
  /\ call.sources[1].srcset = UrlA /\ call.sources[1].media = NullStr
  /\ call.sources[2].kind = "SOURCE" /\ call.sources[3].kind = "IMG"
  /\ call.out.result = "found" /\ call.out.index = 2

-----------------------------------------------------------------------------
(* Claims about the evaluation pass (under Spec).                          *)

PassOps == {"init", "shim", "afterResize", "probe"}

\* the img elements a pass with the list `elements` goes through
TargetsOf(elements) ==
  IF elements = <<-1>> THEN {p \in Imgs : \E i \in DOMAIN getAllElements(imgs, doc) :
                                            getAllElements(imgs, doc)[i] = p}
  ELSE {p \in Imgs : \E i \in DOMAIN elements : elements[i] = p}

\* C2: whenever getMatch returns pending for an img during a pass, forced or
\* not, the evaluated flag of that img is false when the pass ends.
C2_PendingLeavesUnevaluated ==
  hist.op \in PassOps =>
    \A p \in Imgs : hist.log[p].outcome = "pending" => ~imgs[p].evaluated

\* C3: when an img was deferred as pending in some pass and the probe then
\* resolves, the pass run by the probe's handler goes through that img again
\* (source matching and candidate selection) instead of skipping it.
C3_ProbeResolutionReruns ==
  [][hist'.op = "probe" =>
       \A p \in hist.deferred : hist'.log[p].outcome = "evaluated"]_vars

\* C4: a pass without reevaluate changes nothing for an img of its list whose
\* evaluated flag is set: its src, its cached srcset and its evaluated flag
\* stay as they were; and when every img of the list is such, the registry of
\* types is unchanged, no probe is run and no timeout is set.
C4_NonForcedOnEvaluatedIsNoOp ==
  [][(hist'.op \in {"init", "shim"} /\ ~hist'.force) =>
       /\ \A p \in TargetsOf(hist'.elements) :
            imgs[p].evaluated => imgs'[p] = imgs[p] /\ doc'[p] = doc[p]
       /\ (/\ TargetsOf(hist'.elements) # {}
           /\ \A p \in TargetsOf(hist'.elements) : imgs[p].evaluated)
          => /\ types' = types /\ probe' = probe /\ hist'.probes = <<>>
             /\ sizers' = sizers /\ timer' = timer /\ working' = working]_vars

\* a pass without reevaluate has skipped an evaluated img after the media
\* matching had changed
C4_Witness ==
  /\ hist.op = "shim" /\ ~hist.force
  /\ \E p \in Imgs : /\ hist.log[p].outcome = "skipped" /\ imgs[p].evaluated
                      /\ doc[p].picture /\ env.media = {MediaA}

\* C6: on a page served over https, when the candidate chosen for an img has
\* an http: URL, the pass does not swap the resource (src and currentSrc are
\* after the pass what they were before) and the img is marked evaluated.
C6_MixedContentKeepsResource ==
  [][hist'.op \in PassOps =>
       \A p \in Imgs :
         (/\ hist'.log[p].outcome = "evaluated" /\ hist'.log[p].applied
          /\ hist'.log[p].best # NoCandidate
          /\ env.protocol = HttpsColon
          /\ toLowerCase(Prefix(hist'.log[p].best.url, 5)) = HttpColon)
         => /\ imgs'[p].src = imgs[p].src
            /\ imgs'[p].currentSrc = imgs[p].currentSrc
            /\ imgs'[p].evaluated]_vars

\* a pass on an https page chose an http: candidate that is not the resource
\* the img had
C6_Witness ==
  /\ hist.op \in PassOps /\ env.protocol = HttpsColon
  /\ \E p \in Imgs : /\ hist.log[p].blocked /\ imgs[p].evaluated
                      /\ hist.log[p].best.url = SetC
                      /\ ~endsWith(imgs[p].src, SetC)

\* C14: at the end of a pass every img of its list that the pass did not
\* defer as pending has its evaluated flag set; when no candidate was there
\* to choose from, nothing is swapped (src and currentSrc are what they were)
\* and the img is marked evaluated all the same.
C14_ProcessedIsEvaluated ==
  [][hist'.op \in PassOps =>
       \A p \in TargetsOf(hist'.elements) :
         hist'.log[p].outcome # "pending" =>
           /\ imgs'[p].evaluated
           /\ (hist'.log[p].outcome = "evaluated" /\ hist'.log[p].best = NoCandidate)
              => /\ imgs'[p].src = imgs[p].src
                 /\ imgs'[p].currentSrc = imgs[p].currentSrc]_vars

\* a pass has gone through applyBestCandidate for an img without any
\* candidate and marked it evaluated
C14_Witness ==
  /\ hist.op \in PassOps
  /\ \E p \in Imgs : /\ hist.log[p].outcome = "evaluated" /\ hist.log[p].applied
                      /\ hist.log[p].best = NoCandidate
                      /\ imgs[p].evaluated /\ imgs[p].src = UrlE

\* C15: within one pass the test function of a type is run at most once,
\* however many img elements of the pass reach a source of that type while
\* its entry in the registry is still the function.
C15_ProbeOncePerPass ==
  hist.op \in PassOps =>
    \A i, j \in DOMAIN hist.probes : hist.probes[i] = hist.probes[j] => i = j

-----------------------------------------------------------------------------
(* The resize throttle exercised with time passing one unit at a time.     *)

ResizeDocuments == {<<"http-by-media", "plain">>}

ResizeHosts == {h \in Hosts : h.protocol = HttpColon}

ResizeInit == InitWith(ResizeDocuments, ResizeHosts)

ResizeNext ==
  \/ Start
  \/ CheckResize
  \/ Tick
  \/ AfterResize
  \/ HostChange

SpecResize == ResizeInit /\ [][ResizeNext]_vars

\* C5 as stated: the pass of a burst of resize signals runs 60 units of time
\* after the last signal of the burst.
C5_FiresAfterLastSignal ==
  hist.op = "afterResize" => hist.sinceLast = ResizeDelay

\* C5: the first resize signal while no pass is scheduled schedules one forced
\* pass, which runs 60 units of time after that signal; the signals that
\* arrive while it is scheduled neither postpone it nor schedule another.
C5_FiresAfterFirstSignal ==
  /\ hist.op = "afterResize" => hist.firedAge = ResizeDelay
  /\ timer # NoTimer => working /\ timer = ResizeDelay - hist.burstAge
  /\ timer = NoTimer => ~working

\* the pass has run 60 units after the first signal of a burst whose last
\* signal came later
C5_Witness ==
  /\ hist.op = "afterResize" /\ hist.firedAge = ResizeDelay
  /\ hist.sinceLast # NoTime /\ hist.sinceLast < ResizeDelay

\* the timeouts of the host expire: time passes until the timeout outstanding
\* expires
TimerFairness == WF_vars(Elapse)

FairSpec == Init /\ [][Next]_vars /\ TimerFairness

\* a timeout that has expired runs its handler: the resize timeout does not
\* stay expired for ever (weak fairness of AfterResize, which is enabled
\* exactly while timer = 0 and is the only step that takes timer from 0)
ExpiredTimeoutRuns == []<>(timer # 0)

\* C17: a resize signal is followed by a pass of afterResize_ (reevaluate
\* set, over all the elements of getAllElements) that starts after the
\* signal; when that pass ends picturefillWorking_ is false; and the resize
\* timeout is set only while none is outstanding.
C17_SignalIsFollowedByForcedPass ==
  /\ ExpiredTimeoutRuns =>
       ((hist.burstAge # NoTime)
          ~> (/\ hist.op = "afterResize" /\ hist.force /\ hist.elements = <<-1>>
              /\ hist.burstAge = NoTime /\ ~working /\ timer = NoTimer))
  /\ [](hist.op = "afterResize" => ~working /\ timer = NoTimer)
  /\ [][(timer' # timer /\ timer' = ResizeDelay) => timer = NoTimer]_vars

\* the pass of afterResize_ has ended after a signal that came when the
\* timeout had expired, the flag cleared and no timeout outstanding
C17_Witness ==
  /\ hist.op = "afterResize" /\ hist.force /\ hist.elements = <<-1>>
  /\ ~working /\ timer = NoTimer /\ hist.burstAge = NoTime
  /\ hist.sinceLast = 0
  /\ \E p \in Imgs : hist.log[p].outcome = "evaluated"

-----------------------------------------------------------------------------
(* The srcset parser exercised alone: parseSrcset on every string of up to *)
(* MaxSrcsetLen characters.                                                *)

MaxSrcsetLen == 4

SrcsetChars == {"a", ",", " ", "x"}

SrcsetInit ==
  /\ Parked
  /\ call \in [op : {"ready"}, input : SeqsUpTo(SrcsetChars, MaxSrcsetLen)]

SrcsetApply ==
  /\ call.op = "ready"
  /\ call' = [op |-> "parseSrcset", input |-> call.input, out |-> parseSrcset(call.input)]
  /\ UNCHANGED mvars

SrcsetNext == SrcsetApply

SpecSrcset == SrcsetInit /\ [][SrcsetNext]_vars

\* the run of characters that are not white space at the head of str
RECURSIVE UrlRun(_)
UrlRun(str) ==
  IF str = <<>> \/ IsSpace(str[1]) THEN <<>>
  ELSE <<str[1]>> \o UrlRun(Drop(str, 1))

\* the run without the commas at its end
RECURSIVE WithoutCommas(_)
WithoutCommas(run) ==
  IF run # <<>> /\ run[Len(run)] = "," THEN WithoutCommas(SubSeq(run, 1, Len(run) - 1))
  ELSE run

\* C11: when the URL run at the head of the list ends with a comma, the end
\* of the input included, parseSrcset emits the candidate with the comma
\* stripped from the URL and an empty (not absent) descriptor.
C11_TrailingCommaStripped ==
  (/\ call.op = "parseSrcset"
   /\ UrlRun(trimLeft(call.input)) # <<>>
   /\ UrlRun(trimLeft(call.input))[Len(UrlRun(trimLeft(call.input)))] = ","
   /\ WithoutCommas(UrlRun(trimLeft(call.input))) # <<>>)
  => /\ call.out # <<>>
     /\ call.out[1] = [url |-> WithoutCommas(UrlRun(trimLeft(call.input))),
                       descriptor |-> <<>>]

-----------------------------------------------------------------------------
(* The sizes resolver exercised alone: findWidthFromSourceSize on every    *)
(* list of up to MaxSizes entries, each a media condition, a length, both  *)
(* or neither, with the media condition holding or not.                    *)

MaxSizes == 2

TwoPx == <<"2", "p", "x">>

NoPart == <<>>

\* the entries: media condition (or none) and length (or none)
SizesEntries == [media : {NoPart, MediaA}, length : {NoPart, FourPx, TwoPx}]

\* an entry as it is written in the attribute
EntryText(entry) ==
  IF entry.media = NoPart THEN entry.length
  ELSE IF entry.length = NoPart THEN entry.media
  ELSE entry.media \o <<" ">> \o entry.length

\* the attribute: the entries separated by a comma and a space
RECURSIVE SizesText(_)
SizesText(entries) ==
  IF entries = <<>> THEN <<>>
  ELSE IF Len(entries) = 1 THEN EntryText(entries[1])
  ELSE EntryText(entries[1]) \o <<",", " ">> \o SizesText(Drop(entries, 1))

\* a viewport of 3 pixels, so that 100vw is neither of the lengths
SizesHost(c) == [BaseHost EXCEPT !.viewport = 3, !.media = c.media]

SizesInit ==
  /\ Parked
  /\ call \in [op : {"ready"}, entries : SeqsUpTo(SizesEntries, MaxSizes),
               media : {{}, {MediaA}}]

SizesApply ==
  /\ call.op = "ready"
  /\ call' = [op |-> "findWidthFromSourceSize", entries |-> call.entries,
              media |-> call.media,
              out |-> findWidthFromSourceSize(SizesText(call.entries), SizesHost(call))]
  /\ UNCHANGED mvars

SizesNext == SizesApply

SpecSizes == SizesInit /\ [][SizesNext]_vars

\* the entries that have a length and whose media condition is absent or holds
SizesWinners ==
  {i \in 1..Len(call.entries) :
     /\ call.entries[i].length # NoPart
     /\ (call.entries[i].media = NoPart \/ call.entries[i].media \in call.media)}

\* C12: the width is that of the length of the first entry, left to right,
\* that has a length and whose media condition is absent or holds, an entry
\* without a length (a parenthesised condition alone) being skipped without
\* stopping the scan; with no such entry it is that of 100vw.
C12_FirstEntryWithLengthWins ==
  call.op = "findWidthFromSourceSize" =>
    call.out = getWidthFromLength(
                 IF SizesWinners = {} THEN FullWidth
                 ELSE call.entries[CHOOSE i \in SizesWinners :
                                     \A j \in SizesWinners : i <= j].length,
                 SizesHost(call))

-----------------------------------------------------------------------------
(* The swap exercised alone: applyBestCandidate with one candidate on an   *)
(* img showing nothing or the resource of one of the URLs, on a page       *)
(* served over http or https.                                              *)

SwapUrls ==
  {<<"a">>, <<"b", "a">>, <<"b">>, HttpColon \o <<"c">>, HttpsColon \o <<"c">>}

SwapHost(c) == [BaseHost EXCEPT !.protocol = c.protocol, !.avail = c.avail]

\* the img before the call: its src is empty or the resolved URL named
SwapImg(c) ==
  NewImg(1, IF c.shown = <<>> THEN <<>> ELSE ResolveUrl(c.shown, SwapHost(c)),
         NullStr, NullStr)

SwapInit ==
  /\ Parked
  /\ call \in [op : {"ready"}, shown : SwapUrls \cup {<<>>}, url : SwapUrls,
               protocol : {HttpColon, HttpsColon}, avail : BOOLEAN]

SwapApply ==
  /\ call.op = "ready"
  /\ call' = [op |-> "applyBestCandidate", shown |-> call.shown, url |-> call.url,
              protocol |-> call.protocol, avail |-> call.avail,
              out |-> applyBestCandidate(<<[url |-> call.url, resolution |-> Num(1)]>>,
                                         SwapImg(call), SwapHost(call))]
  /\ UNCHANGED mvars

SwapNext == SwapApply

SpecSwap == SwapInit /\ [][SwapNext]_vars

\* C16: when a candidate is chosen whose URL differs from the resource the
\* img has, and the page is not https with an http: URL chosen, src and
\* currentSrc of the img are the URL chosen afterwards.
C16_SwapsWhenUrlDiffers ==
  (/\ call.op = "applyBestCandidate"
   /\ call.out.best # NoCandidate
   /\ ResolveUrl(call.out.best.url, SwapHost(call)) # SwapImg(call).src
   /\ ~(call.protocol = HttpsColon /\ Prefix(call.out.best.url, 5) = HttpColon))
  => /\ call.out.img.src = ResolveUrl(call.out.best.url, SwapHost(call))
     /\ call.out.img.currentSrc = call.out.img.src

-----------------------------------------------------------------------------
(* The back-fill of the width exercised alone: img elements with or        *)
(* without a width attribute are given a new resource, which the host has  *)
(* at hand or loads later, and the timeouts of setInherentSize expire.     *)

PresetWidth == Num(9)

BackfillResolutions == {Num(2)}

\* call.preset: the img elements that have a width attribute of their own
BackfillInit ==
  /\ \E preset \in SUBSET Imgs :
       /\ call = [op |-> "backfill", preset |-> preset]
       /\ imgs = [p \in Imgs |->
                    [NewImg(p, UrlE, NullStr, NullStr)
                       EXCEPT !.width = IF p \in preset THEN PresetWidth ELSE Undef]]
  /\ types = InitialTypes(TRUE) /\ probe = "Idle" /\ env = <<>> /\ doc = <<>>
  /\ working = FALSE /\ timer = NoTimer /\ sizers = {}
  /\ hist = History("none", FALSE, <<>>, NoLogs, <<>>, {}, NoTime, NoTime, NoTime)

\* lines 475-479 of applyBestCandidate: a resource is swapped in, complete at
\* once or not, and setInherentSize is called for the resolution chosen
BackfillSwap ==
  /\ \E p \in Imgs, url \in {UrlA, UrlE}, res \in BackfillResolutions, avail \in BOOLEAN :
       /\ imgs[p].src # url
       /\ \E sized \in {setInherentSize(res,
                           [imgs[p] EXCEPT !.src = url, !.currentSrc = url,
                                           !.complete = avail,
                                           !.naturalWidth = IF avail THEN NaturalPx ELSE 0],
                           "undefined")} :
            /\ imgs' = [imgs EXCEPT ![p] = sized.img]
            /\ sizers' = sizers \cup sized.timeouts
  /\ hist' = Event("event")
  /\ UNCHANGED <<call, types, probe, env, working, timer, doc>>

BackfillNext == BackfillSwap \/ ImgLoad \/ SizerFire

SpecBackfill == BackfillInit /\ [][BackfillNext]_vars

\* C18: the width of an img is written only in a step in which the img is
\* complete, and never for an img that has a width attribute of its own.
C18_WidthWrittenWhenReadyAndNotPreset ==
  [][\A p \in Imgs :
       imgs'[p].width # imgs[p].width =>
         /\ imgs'[p].complete
         /\ p \notin call.preset]_vars

-----------------------------------------------------------------------------
(* The passes seen one iteration at a time.  `call` is the call of         *)
(* picturefill.shim in progress, if any: what started it, its list and the *)
(* index of the loop.  The handlers (init, checkResize, afterResize_, the  *)
(* onerror and onload of the webp test) are only references handed to the  *)
(* host (lines 101-108, 682, 702-706): the host calls them one at a time,  *)
(* when no script is running; nothing inside the loop of shim calls one.   *)

NoCall == [op |-> "none"]

\* a handler called while a script runs: a variant the claims must reject
TaskMayStartAnytime(c) == TRUE

\* the host calls a handler only when no call is in progress
TaskMayStart(c) == c = NoCall

\* picturefill.shim is entered: the list is fetched (line 606)
StepBegin(trigger, force) ==
  /\ TaskMayStart(call)
  /\ call' = [op |-> "pass", trigger |-> trigger, force |-> force,
              list |-> getAllElements(imgs, doc), i |-> 1]
  /\ hist' = Event("begin")

\* picturefill.init is called
StepInit ==
  /\ ~env.listening
  /\ StepBegin("init", FALSE)
  /\ env' = [env EXCEPT !.listening = TRUE]
  /\ UNCHANGED <<types, probe, imgs, working, timer, sizers, doc>>

\* picturefill.afterResize_ is called, the resize timeout having expired
StepAfterResize ==
  /\ timer = 0
  /\ StepBegin("afterResize", TRUE)
  /\ timer' = NoTimer
  /\ UNCHANGED <<types, probe, imgs, env, working, sizers, doc>>

\* onerror or onload of the webp test is called
StepProbeResolve ==
  /\ probe = "Loading"
  /\ StepBegin("probe", FALSE)
  /\ \E supported \in {"true", "false"} : types' = [types EXCEPT ![Webp] = supported]
  /\ probe' = "Idle"
  /\ UNCHANGED <<imgs, env, working, timer, sizers, doc>>

\* one iteration of the loop of picturefill.shim
StepIterate ==
  /\ call # NoCall /\ call.i <= Len(call.list)
  /\ \E st \in {ShimStep(call.list[call.i],
                          [imgs |-> imgs, doc |-> doc, types |-> types, probe |-> probe,
                           sizers |-> sizers, probes |-> <<>>, log |-> NoLogs],
                          call.force, HostNow)} :
       /\ imgs' = st.imgs /\ doc' = st.doc /\ types' = st.types
       /\ probe' = st.probe /\ sizers' = st.sizers
  /\ call' = [call EXCEPT !.i = @ + 1]
  /\ hist' = Event("step")
  /\ UNCHANGED <<env, working, timer>>

\* the loop is over and the handler returns; afterResize_ clears the flag
StepEnd ==
  /\ call # NoCall /\ call.i > Len(call.list)
  /\ call' = NoCall
  /\ working' = IF call.trigger = "afterResize" THEN FALSE ELSE working
  /\ hist' = Event("end")
  /\ UNCHANGED <<types, probe, imgs, env, timer, sizers, doc>>

\* picturefill.checkResize is called
StepCheckResize == TaskMayStart(call) /\ CheckResize

\* the media queries that match change between two scripts
StepHostChange == call = NoCall /\ HostChange

StepsNext ==
  \/ StepInit
  \/ StepAfterResize
  \/ StepProbeResolve
  \/ StepIterate
  \/ StepEnd
  \/ StepCheckResize
  \/ Elapse
  \/ StepHostChange

StepsInit == InitWith(Documents, Hosts) /\ call = NoCall

SpecSteps == StepsInit /\ [][StepsNext]_vars

-----------------------------------------------------------------------------
(* The evaluated flag over the life of the page.                           *)

-----------------------------------------------------------------------------
(* The registry entry of the webp type once its test has resolved.         *)

Resolved == {"true", "false"}

\* C22: once a handler of the webp test has set the registry entry to
\* Supported or Unsupported, the entry is never the test function again, and
\* a pass run with the entry resolved, the handler's own included, neither
\* invokes the test nor finds an element pending; no test is left loading.
C22_ResolvedEntryStaysResolved ==
  /\ [][types[Webp] \in Resolved => types'[Webp] \in Resolved]_vars
  /\ [](types[Webp] \in Resolved =>
         /\ probe = "Idle"
         /\ hist.op \in PassOps =>
              /\ hist.probes = <<>>
              /\ \A p \in Imgs : hist.log[p].outcome # "pending")

\* after the resolution a forced pass has evaluated an element whose picture
\* holds a source of the webp type
C22_Witness ==
  /\ types[Webp] \in Resolved
  /\ hist.op = "afterResize" /\ hist.force
  /\ \E p \in Imgs :
       /\ hist.log[p].outcome = "evaluated"
       /\ \E j \in DOMAIN doc[p].children : doc[p].children[j].type = Webp

====
